---- MODULE Spec2Model ----
(***************************************************************************)
(* Model of scripts/analyze_deps.py: directory discovery, per-file import  *)
(* extraction, directory analysis, the structure snapshot and main.        *)
(*                                                                         *)
(* Strings are sequences of one-character strings, so that fnmatch,        *)
(* str.replace, str.split and sorted() are computed character by           *)
(* character.  A path is a sequence of names (pathlib's parts); the        *)
(* filesystem is a function from paths to nodes.                           *)
(***************************************************************************)
EXTENDS Integers, Sequences, FiniteSets, TLC

VARIABLES
    pc,                \* position of the running operation
    fs,                \* the directory tree under the working directory
    unreadable,        \* directories whose iterdir() raises PermissionError
    search_pattern,    \* args.search_pattern (a string)
    exclude_patterns,  \* args.exclude (a list of strings)
    max_depth,         \* generate_project_structure's max_depth
    src_dirs,          \* find_source_directories' return value
    todo_dirs,         \* main: index of the next directory of src_dirs
    all_results,       \* main: the DirectoryResults collected so far
    created,           \* main: directories created by mkdir
    written,           \* main: output files written, with their content
    structure,         \* generate_project_structure's return value
    source,            \* find_imports: the parsed file
    imports,           \* find_imports' return value
    directory,         \* analyze_directory's argument
    dir_result         \* analyze_directory's return value

vars == <<pc, fs, unreadable, search_pattern, exclude_patterns, max_depth,
          src_dirs, todo_dirs, all_results, created, written, structure,
          source, imports, directory, dir_result>>

-----------------------------------------------------------------------------
(* Bounds of the model.                                                    *)

MaxTokens == 2      \* tokens in a search specification
MaxBody == 2        \* statements in a module body
MaxNested == 1      \* statements in a function body
MaxDepthArg == 3    \* largest max_depth tried

-----------------------------------------------------------------------------
(* Characters and strings.                                                 *)

\* The characters in use, in code point order.
CharOrder ==
    <<" ", "!", "*", "-", ".", "/", "?", "D", "S", "[", "]", "_",
      "a", "b", "c", "d", "e", "f", "g", "h", "i", "j", "k", "l", "m",
      "n", "o", "p", "q", "r", "s", "t", "u", "v", "w", "x", "y", "z">>

Ord(c) == CHOOSE i \in 1..Len(CharOrder) : CharOrder[i] = c

Range(s) == {s[i] : i \in 1..Len(s)}

RECURSIVE Concat(_)
Concat(ss) == IF ss = <<>> THEN <<>> ELSE Head(ss) \o Concat(Tail(ss))

RECURSIVE Join(_, _)
Join(ss, sep) ==
    IF ss = <<>> THEN <<>>
    ELSE IF Len(ss) = 1 THEN ss[1]
    ELSE ss[1] \o sep \o Join(Tail(ss), sep)

\* Python's string comparison: by code point, a proper prefix first.
RECURSIVE StrLess(_, _)
StrLess(a, b) ==
    IF b = <<>> THEN FALSE
    ELSE IF a = <<>> THEN TRUE
    ELSE IF Head(a) = Head(b) THEN StrLess(Tail(a), Tail(b))
    ELSE Ord(Head(a)) < Ord(Head(b))

\* sorted(list(S)) for a set of strings.
RECURSIVE Sorted(_)
Sorted(S) ==
    IF S = {} THEN <<>>
    ELSE LET least == CHOOSE x \in S : \A y \in S \ {x} : StrLess(x, y)
         IN <<least>> \o Sorted(S \ {least})

IsPrefixAt(s, sub, i) ==
    /\ i + Len(sub) - 1 <= Len(s)
    /\ \A k \in 1..Len(sub) : s[i + k - 1] = sub[k]

\* str.replace(old, new) for a non-empty old: every non-overlapping
\* occurrence, scanning from the left.
RECURSIVE Replace(_, _, _)
Replace(s, old, new) ==
    IF s = <<>> THEN <<>>
    ELSE IF IsPrefixAt(s, old, 1)
         THEN new \o Replace(SubSeq(s, Len(old) + 1, Len(s)), old, new)
         ELSE <<Head(s)>> \o Replace(Tail(s), old, new)

\* str.split(sep) for a one-character sep, keeping empty fields.
RECURSIVE SplitOn(_, _, _)
SplitOn(s, sep, cur) ==
    IF s = <<>> THEN <<cur>>
    ELSE IF Head(s) = sep THEN <<cur>> \o SplitOn(Tail(s), sep, <<>>)
    ELSE SplitOn(Tail(s), sep, Append(cur, Head(s)))

SelectNonEmpty(ss) == SelectSeq(ss, LAMBDA x : x # <<>>)

\* str.split(): on runs of whitespace, no empty fields.
Split(s) == SelectNonEmpty(SplitOn(s, " ", <<>>))

-----------------------------------------------------------------------------
(* fnmatch.fnmatch on POSIX: case-sensitive, "*" and "?" also match "/".   *)

\* Index of the "]" closing the class opened at p[1] = "[", or 0.
ClassEnd(p) ==
    LET n == Len(p)
        j1 == IF n >= 2 /\ p[2] = "!" THEN 3 ELSE 2
        j2 == IF j1 <= n /\ p[j1] = "]" THEN j1 + 1 ELSE j1
        S == {j \in j2..n : p[j] = "]"}
    IN IF S = {} THEN 0 ELSE CHOOSE j \in S : \A k \in S : j <= k

InClass(c, m) ==
    \E k \in 1..Len(m) :
        \/ m[k] = c /\ ~(m[k] = "-" /\ 1 < k /\ k < Len(m))
        \/ /\ k + 2 <= Len(m)
           /\ m[k + 1] = "-"
           /\ Ord(m[k]) <= Ord(c)
           /\ Ord(c) <= Ord(m[k + 2])

RECURSIVE fnmatch(_, _)
fnmatch(s, p) ==
    IF p = <<>> THEN s = <<>>
    ELSE IF Head(p) = "*"
         THEN fnmatch(s, Tail(p)) \/ (s # <<>> /\ fnmatch(Tail(s), p))
    ELSE IF Head(p) = "?"
         THEN s # <<>> /\ fnmatch(Tail(s), Tail(p))
    ELSE IF Head(p) = "[" /\ ClassEnd(p) # 0
         THEN LET j == ClassEnd(p)
                  neg == p[2] = "!"
                  m == SubSeq(p, IF neg THEN 3 ELSE 2, j - 1)
              IN /\ s # <<>>
                 /\ (InClass(Head(s), m) <=> ~neg)
                 /\ fnmatch(Tail(s), SubSeq(p, j + 1, Len(p)))
    ELSE s # <<>> /\ Head(s) = Head(p) /\ fnmatch(Tail(s), Tail(p))

-----------------------------------------------------------------------------
(* Names, as strings.                                                      *)

DOT == <<".">>
SLASH == <<"/">>
SPACE == <<" ">>
n_src == <<"s", "r", "c">>
n_pkg == <<"p", "k", "g">>
n_sub == <<"s", "u", "b">>
n_lib == <<"l", "i", "b">>
n_node_modules == <<"n", "o", "d", "e", "_", "m", "o", "d", "u", "l", "e", "s">>
n_build == <<"b", "u", "i", "l", "d">>
n_files == <<"f", "i", "l", "e", "s">>
n_deep == <<"d", "e", "e", "p">>
n_os == <<"o", "s">>
n_c == <<"c">>
n_x == <<"x">>
n_a_b == <<"a", ".", "b">>
n_app_py == <<"a", "p", "p", ".", "p", "y">>
n_a_b_py == <<"a", ".", "b", ".", "p", "y">>
n_pytools_py == <<"p", "y", "t", "o", "o", "l", "s", ".", "p", "y">>
n_bad_py == <<"b", "a", "d", ".", "p", "y">>
n_x_py == <<"x", ".", "p", "y">>
n_z_py == <<"z", ".", "p", "y">>
n_m_py == <<"m", ".", "p", "y">>
n_a_md == <<"a", ".", "m", "d">>
n_notes_txt == <<"n", "o", "t", "e", "s", ".", "t", "x", "t">>
n_index_json == <<"i", "n", "d", "e", "x", ".", "j", "s", "o", "n">>
n_Dockerfile == <<"D", "o", "c", "k", "e", "r", "f", "i", "l", "e">>
dot_py == <<".", "p", "y">>

\* DEFAULT_EXCLUDES, in the order of the source.
DEFAULT_EXCLUDES ==
    << n_node_modules,
       <<".", "v", "e", "n", "v">>,
       <<"v", "e", "n", "v">>,
       <<"_", "_", "p", "y", "c", "a", "c", "h", "e", "_", "_">>,
       <<".", "g", "i", "t">>,
       <<".", "p", "y", "t", "e", "s", "t", "_", "c", "a", "c", "h", "e">>,
       <<".", "c", "o", "v", "e", "r", "a", "g", "e">>,
       <<"*", ".", "e", "g", "g", "-", "i", "n", "f", "o">>,
       <<"d", "i", "s", "t">>,
       n_build,
       <<".", "i", "d", "e", "a">>,
       <<".", "v", "s", "c", "o", "d", "e">>,
       <<".", "D", "S", "_", "S", "t", "o", "r", "e">>,
       <<"*", ".", "p", "y", "c">>,
       <<"*", ".", "p", "y", "o">>,
       <<"*", ".", "p", "y", "d">>,
       <<".", "m", "y", "p", "y", "_", "c", "a", "c", "h", "e">>,
       <<".", "r", "u", "f", "f", "_", "c", "a", "c", "h", "e">>,
       <<"h", "t", "m", "l", "c", "o", "v">>,
       <<".", "e", "n", "v">>,
       <<"*", ".", "l", "o", "g">> >>

\* IMPORTANT_FILE_PATTERNS, in the order of the source.
IMPORTANT_FILE_PATTERNS ==
    << <<"*", ".", "p", "y">>,
       <<"*", ".", "i", "n", "i">>,
       <<"*", ".", "t", "o", "m", "l">>,
       <<"*", ".", "y", "a", "m", "l">>,
       <<"*", ".", "y", "m", "l">>,
       <<"*", ".", "j", "s", "o", "n">>,
       <<"*", ".", "m", "d">>,
       n_Dockerfile,
       <<"r", "e", "q", "u", "i", "r", "e", "m", "e", "n", "t", "s", ".", "t", "x", "t">>,
       <<"s", "e", "t", "u", "p", ".", "p", "y">>,
       <<"*", ".", "l", "o", "c", "k">> >>

-----------------------------------------------------------------------------
(* pathlib.                                                                *)

\* str(path); the empty path is ".".
PathStr(path) == IF path = <<>> THEN DOT ELSE Join(path, SLASH)

\* path.name; "" for ".".
PathName(path) == IF path = <<>> THEN <<>> ELSE path[Len(path)]

\* path.parents of a relative path: nearest first, ending with ".".
PathParents(path) == [i \in 1..Len(path) |-> SubSeq(path, 1, Len(path) - i)]

\* Path(string): the parts, without empty and "." parts.
ParsePath(s) == SelectSeq(SplitOn(s, "/", <<>>), LAMBDA x : x # <<>> /\ x # DOT)

IsDir(path) == path = <<>> \/ (path \in DOMAIN fs /\ fs[path].kind = "dir")

IsFile(path) == path \in DOMAIN fs /\ fs[path].kind = "file"

RECURSIVE GlobMatch(_, _, _)
\* Whether prefix \o rest is selected by the pattern parts pat below prefix.
GlobMatch(prefix, rest, pat) ==
    IF pat = <<>> THEN rest = <<>>
    ELSE IF Head(pat) = <<"*", "*">>
         THEN \/ GlobMatch(prefix, rest, Tail(pat))
              \/ /\ rest # <<>>
                 /\ IsDir(Append(prefix, Head(rest)))
                 /\ GlobMatch(Append(prefix, Head(rest)), Tail(rest), pat)
    ELSE /\ rest # <<>>
         /\ fnmatch(Head(rest), Head(pat))
         /\ GlobMatch(Append(prefix, Head(rest)), Tail(rest), Tail(pat))

GlobParts(parts) == {p \in DOMAIN fs \cup {<<>>} : GlobMatch(<<>>, p, parts)}

\* root_path.glob(pattern): the existing paths the pattern selects.
Glob(pattern) == GlobParts(ParsePath(pattern))

-----------------------------------------------------------------------------
(* Directory discovery.                                                    *)

\* should_skip_directory(str(path), exclude_patterns).
should_skip_directory(path, excludes) ==
    \E k \in 1..Len(excludes) :
        \/ \E i \in 1..Len(path) :
              LET parent == PathParents(path)[i]
              IN \/ fnmatch(PathStr(parent), excludes[k])
                 \/ fnmatch(PathName(parent), excludes[k])
        \/ fnmatch(PathStr(path), excludes[k])
        \/ fnmatch(PathName(path), excludes[k])

\* root_path.glob(pattern) raises for a pattern without parts or an
\* absolute one; the loop's except clause then drops the pattern.
GlobRaises(pattern) == ParsePath(pattern) = <<>> \/ Head(pattern) = "/"

\* The exclude list the loop hands to should_skip_directory.
SkipList(excludes, all_excludes) == excludes

\* Line 174: the pattern names an existing directory that is not skipped.
DirectMatch(pattern, excludes) ==
    LET all_excludes == excludes \o DEFAULT_EXCLUDES
    IN /\ IsDir(ParsePath(pattern))
       /\ ~should_skip_directory(ParsePath(pattern), SkipList(excludes, all_excludes))

\* One iteration of the loop over the patterns: matching_dirs afterwards.
ProcessPattern(matching_dirs, pattern, excludes) ==
    LET all_excludes == excludes \o DEFAULT_EXCLUDES
        skip == SkipList(excludes, all_excludes)
    IN IF DirectMatch(pattern, excludes)
       THEN matching_dirs \cup {PathStr(ParsePath(pattern))}
       ELSE IF GlobRaises(pattern) THEN matching_dirs
       ELSE matching_dirs \cup
            {PathStr(p) : p \in {q \in Glob(pattern) :
                                   IsDir(q) /\ ~should_skip_directory(q, skip)}}

RECURSIVE MatchingDirsBreak(_, _, _)
MatchingDirsBreak(matching_dirs, patterns, excludes) ==
    IF patterns = <<>> THEN matching_dirs
    ELSE IF DirectMatch(Head(patterns), excludes)
         THEN ProcessPattern(matching_dirs, Head(patterns), excludes)
    ELSE MatchingDirsBreak(ProcessPattern(matching_dirs, Head(patterns), excludes),
                           Tail(patterns), excludes)

RECURSIVE MatchingDirs(_, _, _)
\* The loop of lines 171-188 over the patterns.
MatchingDirs(matching_dirs, patterns, excludes) ==
    IF patterns = <<>> THEN matching_dirs
    ELSE MatchingDirs(ProcessPattern(matching_dirs, Head(patterns), excludes),
                      Tail(patterns), excludes)

find_source_directories(pattern_string, excludes) ==
    Sorted(MatchingDirs({}, Split(pattern_string), excludes))

-----------------------------------------------------------------------------
(* Syntax trees, as ast.parse returns them.  Every node is a record        *)
(* [type, names, module, body]: names are the alias names of an import     *)
(* statement, module is ImportFrom's module ("" stands for None, which     *)
(* the code replaces by ''), body the statements of a Module or            *)
(* FunctionDef.                                                            *)

Node(type, names, module, body) ==
    [type |-> type, names |-> names, module |-> module, body |-> body]

Import(names) == Node("Import", names, <<>>, <<>>)
ImportFrom(module, names) == Node("ImportFrom", names, module, <<>>)
FunctionDef(body) == Node("FunctionDef", <<>>, <<>>, body)
Module(body) == Node("Module", <<>>, <<>>, body)
Alias(name) == Node("alias", <<name>>, <<>>, <<>>)
Arguments == Node("arguments", <<>>, <<>>, <<>>)

\* ast.iter_child_nodes(node), in field order.
ChildNodes(node) ==
    CASE node.type = "Module" -> node.body
      [] node.type = "FunctionDef" -> <<Arguments>> \o node.body
      [] node.type \in {"Import", "ImportFrom"} ->
             [i \in 1..Len(node.names) |-> Alias(node.names[i])]
      [] OTHER -> <<>>

RECURSIVE WalkDepthFirst(_)
WalkDepthFirst(todo) ==
    IF todo = <<>> THEN <<>>
    ELSE <<Head(todo)>> \o WalkDepthFirst(ChildNodes(Head(todo)) \o Tail(todo))

RECURSIVE Walk(_)
\* ast.walk: todo is a deque; popleft a node, extend by its children.
Walk(todo) ==
    IF todo = <<>> THEN <<>>
    ELSE <<Head(todo)>> \o Walk(Tail(todo) \o ChildNodes(Head(todo)))

NodeImportsBare(node) ==
    IF node.type \in {"Import", "ImportFrom"} THEN node.names ELSE <<>>

\* The body of find_imports' loop: what one node appends to imports.
NodeImports(node) ==
    IF node.type = "Import" THEN node.names
    ELSE IF node.type = "ImportFrom"
         THEN [i \in 1..Len(node.names) |->
                  IF node.module # <<>>
                  THEN node.module \o DOT \o node.names[i]
                  ELSE node.names[i]]
    ELSE <<>>

\* A file's content: whether open() and ast.parse succeed, and the tree.
Parsed(tree) == [parses |-> TRUE, tree |-> tree]
Unparseable == [parses |-> FALSE, tree |-> Module(<<>>)]

find_imports(content) ==
    IF ~content.parses THEN <<>>
    ELSE LET nodes == Walk(<<content.tree>>)
         IN Concat([i \in 1..Len(nodes) |-> NodeImports(nodes[i])])

-----------------------------------------------------------------------------
(* Directory analysis.                                                     *)

Dir == [kind |-> "dir", content |-> Unparseable]
File(content) == [kind |-> "file", content |-> content]

IsUnder(path, dir_path) ==
    Len(path) > Len(dir_path) /\ SubSeq(path, 1, Len(dir_path)) = dir_path

\* dir_path.rglob("*.py"): every entry below dir_path whose name matches.
RGlob(dir_path) ==
    {p \in DOMAIN fs : IsUnder(p, dir_path) /\ fnmatch(PathName(p), <<"*">> \o dot_py)}

\* The orders in which rglob may yield a set of entries.
Orders(S) ==
    {q \in [1..Cardinality(S) -> S] : \A i, j \in 1..Cardinality(S) : q[i] = q[j] => i = j}

None == [none |-> TRUE, name |-> <<>>, modules |-> <<>>]
DirectoryResult(name, modules) == [none |-> FALSE, name |-> name, modules |-> modules]

ModulePathSuffixOnly(relative_str) ==
    LET dotted == Replace(relative_str, SLASH, DOT)
    IN SubSeq(dotted, 1, Len(dotted) - Len(dot_py))

\* module_path of line 118.
ModulePath(relative_str) == Replace(Replace(relative_str, SLASH, DOT), dot_py, <<>>)

\* The loop body of analyze_directory for one entry rglob yields: the
\* ModuleInfo appended to all_imports, if any.
FileModules(dir_path, python_file) ==
    LET found == find_imports(fs[python_file].content)
        relative_path == SubSeq(python_file, Len(dir_path) + 1, Len(python_file))
    IN IF found = <<>> THEN <<>>
       ELSE << [file |-> PathStr(relative_path),
                module |-> ModulePath(PathStr(relative_path)),
                imports |-> found] >>

ReturnEmptyResult(dir_name, all_imports) ==
    DirectoryResult(Replace(dir_name, SLASH, DOT), all_imports)

\* Lines 126-131: the value returned after the loop.
ReturnResult(dir_name, all_imports) ==
    IF all_imports # <<>>
    THEN DirectoryResult(Replace(dir_name, SLASH, DOT), all_imports)
    ELSE None

\* analyze_directory(dir_name), rglob yielding the entries in this order.
analyze_directory(dir_name, order) ==
    LET dir_path == ParsePath(dir_name)
    IN IF ~(dir_path = <<>> \/ dir_path \in DOMAIN fs) THEN None
       ELSE ReturnResult(dir_name,
                Concat([i \in 1..Len(order) |-> FileModules(dir_path, order[i])]))

-----------------------------------------------------------------------------
(* The structure snapshot.  A Python value is a record [kind, items,       *)
(* elems]: a dict has items (a function from keys to values), a list has   *)
(* elems, a str is its one elem; "AttributeError" is the exception that    *)
(* tree['files'].append raises when tree['files'] is a dict.               *)

NoItems == [k \in {} |-> <<>>]
VNone == [kind |-> "None", items |-> NoItems, elems |-> <<>>]
VStr(name) == [kind |-> "str", items |-> NoItems, elems |-> <<name>>]
VList(elems) == [kind |-> "list", items |-> NoItems, elems |-> elems]
VDict(items) == [kind |-> "dict", items |-> items, elems |-> <<>>]
VRaised == [kind |-> "AttributeError", items |-> NoItems, elems |-> <<>>]

\* tree[key] = value.
SetItem(items, key, value) ==
    [k \in DOMAIN items \cup {key} |-> IF k = key THEN value ELSE items[k]]

\* is_important_file(path): the patterns are matched against str(path).
is_important_file(path) ==
    \E k \in 1..Len(IMPORTANT_FILE_PATTERNS) :
        fnmatch(PathStr(path), IMPORTANT_FILE_PATTERNS[k])

\* should_exclude(path) of generate_project_structure.
should_exclude(path, excludes) ==
    \E k \in 1..Len(excludes) : fnmatch(PathStr(path), excludes[k])

ChildPaths(path) ==
    {p \in DOMAIN fs : Len(p) = Len(path) + 1 /\ SubSeq(p, 1, Len(path)) = path}

\* sorted(path.iterdir()): siblings compare by their names.
SortedChildren(path) ==
    LET names == Sorted({PathName(p) : p \in ChildPaths(path)})
    IN [i \in 1..Len(names) |-> Append(path, names[i])]

\* Lines 230-236: tree after the loop body has handled one child.
AddChild(tree, child, child_tree) ==
    IF tree.kind = "AttributeError" \/ child_tree.kind = "AttributeError"
    THEN VRaised
    ELSE IF child_tree.kind = "None" THEN tree
    ELSE IF IsDir(child)
         THEN VDict(SetItem(tree.items, PathName(child), child_tree))
    ELSE LET with_list == IF n_files \in DOMAIN tree.items THEN tree.items
                          ELSE SetItem(tree.items, n_files, VList(<<>>))
             files == with_list[n_files]
         IN IF files.kind # "list" THEN VRaised
            ELSE VDict(SetItem(with_list, n_files,
                               VList(files.elems \o child_tree.elems)))

AtDepthLimitOffByOne(current_depth, limit) == current_depth > limit

\* Line 223: the test that stops the descent.
AtDepthLimit(current_depth, limit) == current_depth >= limit

RECURSIVE build_tree(_, _, _, _)
RECURSIVE BuildChildren(_, _, _, _, _)

\* The loop of lines 228-236 over the sorted children still to handle.
BuildChildren(tree, children, current_depth, excludes, limit) ==
    IF children = <<>> THEN tree
    ELSE BuildChildren(
             AddChild(tree, Head(children),
                      build_tree(Head(children), current_depth + 1, excludes, limit)),
             Tail(children), current_depth, excludes, limit)

build_tree(path, current_depth, excludes, limit) ==
    IF should_exclude(path, excludes) THEN VNone
    ELSE IF IsFile(path)
         THEN IF is_important_file(path) THEN VStr(PathName(path)) ELSE VNone
    ELSE IF AtDepthLimit(current_depth, limit) THEN VDict(NoItems)
    ELSE IF path \in unreadable THEN VNone
    ELSE LET tree == BuildChildren(VDict(NoItems), SortedChildren(path),
                                   current_depth, excludes, limit)
         IN IF tree.kind = "dict" /\ DOMAIN tree.items = {} THEN VNone ELSE tree

\* generate_project_structure(".", excludes, limit): {root.name: tree}, or
\* the exception that escapes build_tree.
generate_project_structure(excludes, limit) ==
    LET tree == build_tree(<<>>, 0, excludes, limit)
    IN IF tree.kind = "AttributeError" THEN VRaised
       ELSE VDict(SetItem(NoItems, <<>>, tree))

-----------------------------------------------------------------------------
(* Directory trees.                                                        *)

EmptyFs == [p \in {} |-> Dir]

\* The trees a universe of nodes allows: every subset of its paths that
\* holds, with an entry, the directory the entry lies in.
ClosedSubsets(universe) ==
    {S \in SUBSET DOMAIN universe :
        \A p \in S : Len(p) > 1 =>
            LET parent == SubSeq(p, 1, Len(p) - 1)
            IN parent \in S /\ universe[parent].kind = "dir"}

Trees(universe) == {[p \in S |-> universe[p]] : S \in ClosedSubsets(universe)}

SeqsUpTo(S, n) == UNION {[1..k -> S] : k \in 0..n}

-----------------------------------------------------------------------------
(* find_source_directories on its own.                                     *)

t_src == n_src
t_glob_src == <<"*", "*", "/">> \o n_src
t_pkg_star == n_pkg \o <<"/", "*">>
t_sub_path == Join(<<n_pkg, n_node_modules, n_sub>>, SLASH)
t_dot == DOT

Tokens == {t_src, t_glob_src, t_pkg_star, t_sub_path, t_dot}

DiscoverUniverse ==
    (<<n_src>> :> Dir) @@ (<<n_pkg>> :> Dir) @@ (<<n_pkg, n_src>> :> Dir)
    @@ (<<n_pkg, n_node_modules>> :> Dir)
    @@ (<<n_pkg, n_node_modules, n_sub>> :> Dir)
    @@ (<<n_pkg, n_lib>> :> File(Unparseable))

\* Trees in which pkg, when present, holds the plain file pkg/lib.
DiscoverTrees ==
    {t \in Trees(DiscoverUniverse) :
        <<n_pkg>> \in DOMAIN t => <<n_pkg, n_lib>> \in DOMAIN t}

ExcludeChoices ==
    { <<>>,
      <<n_node_modules>>,
      << <<"[", "l", "-", "n", "]", "*">>, <<"?">> >> }

InitDiscover ==
    /\ pc = "start"
    /\ fs \in DiscoverTrees
    /\ unreadable = {}
    /\ search_pattern \in {Join(ts, SPACE) : ts \in SeqsUpTo(Tokens, MaxTokens)}
    /\ exclude_patterns \in ExcludeChoices
    /\ max_depth = 0
    /\ src_dirs = <<>>
    /\ todo_dirs = 0
    /\ all_results = <<>>
    /\ created = {}
    /\ written = {}
    /\ structure = VNone
    /\ source = Unparseable
    /\ imports = <<>>
    /\ directory = <<>>
    /\ dir_result = None

FindSourceDirectories ==
    /\ pc = "start"
    /\ src_dirs' = find_source_directories(search_pattern, exclude_patterns)
    /\ pc' = "done"
    /\ UNCHANGED <<fs, unreadable, search_pattern, exclude_patterns, max_depth,
                   todo_dirs, all_results, created, written, structure,
                   source, imports, directory, dir_result>>

NextDiscover == FindSourceDirectories

SpecDiscover == InitDiscover /\ [][NextDiscover]_vars

\* C1: find_source_directories returns no directory that matches, by its
\* full path, its bare name or an ancestor's full path or bare name, a
\* pattern of the caller's exclude patterns merged with DEFAULT_EXCLUDES.
C1_NoExcludedDirectoryReturned ==
    pc = "done" =>
        \A i \in 1..Len(src_dirs) :
            ~should_skip_directory(ParsePath(src_dirs[i]),
                                   exclude_patterns \o DEFAULT_EXCLUDES)

\* Search specifications with the same tokens as the one given: every
\* sequence of them that is no longer (all permutations among them), and
\* the one given with any of its tokens repeated at the end.
Rearrangements(pattern_string) ==
    LET tokens == Split(pattern_string)
        T == Range(tokens)
    IN {Join(q, SPACE) :
            q \in {r \in SeqsUpTo(T, Len(tokens)) : Range(r) = T}
                   \cup {Append(tokens, t) : t \in T}}

\* C2: the list find_source_directories returns is duplicate-free, sorted,
\* and the same for every permutation and repetition of the tokens.
C2_SortedAndOrderIndependent ==
    pc = "done" =>
        /\ \A i, j \in 1..Len(src_dirs) : i < j => StrLess(src_dirs[i], src_dirs[j])
        /\ \A other \in Rearrangements(search_pattern) :
               find_source_directories(other, exclude_patterns) = src_dirs

C2_Witness ==
    /\ pc = "done"
    /\ Cardinality(Range(Split(search_pattern))) = 2
    /\ Len(src_dirs) >= 2
    /\ find_source_directories(Split(search_pattern)[1], exclude_patterns) # src_dirs
    /\ find_source_directories(Split(search_pattern)[2], exclude_patterns) # src_dirs

-----------------------------------------------------------------------------
(* find_imports on its own.                                                *)

\* import os / import a.b, c / from a.b import c, x / from . import c
ImportStatements ==
    { Import(<<n_os>>),
      Import(<<n_a_b, n_c>>),
      ImportFrom(n_a_b, <<n_c, n_x>>),
      ImportFrom(<<>>, <<n_c>>) }

SeqsFromTo(S, lo, hi) == UNION {[1..k -> S] : k \in lo..hi}

\* def f(): <import statements>
InnerFunctions == {FunctionDef(body) : body \in SeqsFromTo(ImportStatements, 1, MaxNested)}

\* def g(): def f(): <import statements>
OuterFunctions == {FunctionDef(<<f>>) : f \in InnerFunctions}

Statements == ImportStatements \cup InnerFunctions \cup OuterFunctions

Sources ==
    {Unparseable} \cup {Parsed(Module(body)) : body \in SeqsUpTo(Statements, MaxBody)}

InitImports ==
    /\ pc = "start"
    /\ fs = EmptyFs
    /\ unreadable = {}
    /\ search_pattern = <<>>
    /\ exclude_patterns = <<>>
    /\ max_depth = 0
    /\ src_dirs = <<>>
    /\ todo_dirs = 0
    /\ all_results = <<>>
    /\ created = {}
    /\ written = {}
    /\ structure = VNone
    /\ source \in Sources
    /\ imports = <<>>
    /\ directory = <<>>
    /\ dir_result = None

FindImports ==
    /\ pc = "start"
    /\ imports' = find_imports(source)
    /\ pc' = "done"
    /\ UNCHANGED <<fs, unreadable, search_pattern, exclude_patterns, max_depth,
                   src_dirs, todo_dirs, all_results, created, written,
                   structure, source, directory, dir_result>>

NextImports == FindImports

SpecImports == InitImports /\ [][NextImports]_vars

RECURSIVE InSourceOrder(_)
\* The statements of a body and of the bodies nested in it, as they appear
\* in the source text.
InSourceOrder(body) ==
    IF body = <<>> THEN <<>>
    ELSE <<Head(body)>> \o InSourceOrder(Head(body).body) \o InSourceOrder(Tail(body))

RECURSIVE AtDepth(_, _)
\* The statements d levels below the module, as they appear in the source.
AtDepth(body, d) ==
    IF d = 1 THEN body
    ELSE Concat([i \in 1..Len(body) |-> AtDepth(body[i].body, d - 1)])

\* The references the specification asks of one statement.
References(stmt) ==
    CASE stmt.type = "Import" -> stmt.names
      [] stmt.type = "ImportFrom" /\ stmt.module # <<>> ->
             [i \in 1..Len(stmt.names) |-> stmt.module \o DOT \o stmt.names[i]]
      [] stmt.type = "ImportFrom" /\ stmt.module = <<>> -> stmt.names
      [] OTHER -> <<>>

ReferencesOf(stmts) == Concat([i \in 1..Len(stmts) |-> References(stmts[i])])

Count(seq, x) == Cardinality({i \in 1..Len(seq) : seq[i] = x})

\* C4: for a parsed file find_imports returns exactly one entry per named
\* target of every import statement anywhere in the tree, duplicates kept:
\* X for "import X", M.X for "from M import X", X when M is empty.
C4_OneEntryPerTarget ==
    (pc = "done" /\ source.parses) =>
        LET expected == ReferencesOf(InSourceOrder(source.tree.body))
        IN /\ Len(imports) = Len(expected)
           /\ \A x \in Range(expected) \cup Range(imports) :
                  Count(imports, x) = Count(expected, x)

C4_Witness ==
    /\ pc = "done"
    /\ source.parses
    /\ \E i, j \in 1..Len(imports) : i # j /\ imports[i] = imports[j]
    /\ \E i \in 1..Len(source.tree.body) :
           source.tree.body[i].type = "ImportFrom" /\ source.tree.body[i].module = <<>>

\* C5 as stated: the imports are in source appearance order, also when one
\* statement is nested in a body and the other is at top level.
C5_SourceOrder ==
    (pc = "done" /\ source.parses) =>
        imports = ReferencesOf(InSourceOrder(source.tree.body))

\* C5 as amended: the imports are in breadth-first order: by depth in the
\* syntax tree first, and in source order among statements of one depth.
C5_BreadthFirstOrder ==
    (pc = "done" /\ source.parses) =>
        LET body == source.tree.body
            deepest == Len(InSourceOrder(body))
        IN imports = Concat([d \in 1..deepest |-> ReferencesOf(AtDepth(body, d))])

C5_Witness ==
    /\ pc = "done"
    /\ source.parses
    /\ Len(source.tree.body) = 2
    /\ source.tree.body[1].type = "FunctionDef"
    /\ source.tree.body[1].body[1].type = "Import"
    /\ source.tree.body[2].type = "Import"
    /\ imports[1] = source.tree.body[2].names[1]
    /\ imports[Len(imports)] = source.tree.body[1].body[1].names[Len(source.tree.body[1].body[1].names)]

-----------------------------------------------------------------------------
(* analyze_directory on its own.                                           *)

NoImportsFile == File(Parsed(Module(<<>>)))
OsFile == File(Parsed(Module(<<Import(<<n_os>>)>>)))
TwoImportsFile ==
    File(Parsed(Module(<<Import(<<n_os>>), ImportFrom(n_a_b, <<n_c, n_x>>)>>)))
NestedImportFile ==
    File(Parsed(Module(<<FunctionDef(<<ImportFrom(<<>>, <<n_c>>)>>)>>)))
BadFile == File(Unparseable)

p_app == <<n_src, n_app_py>>

\* src/m.py is a directory; src/notes.txt holds imports but is no .py file.
AnalyzeUniverse ==
    (<<n_src>> :> Dir) @@ (p_app :> NoImportsFile)
    @@ (<<n_src, n_a_b_py>> :> OsFile)
    @@ (<<n_src, n_pkg>> :> Dir)
    @@ (<<n_src, n_pkg, n_pytools_py>> :> NestedImportFile)
    @@ (<<n_src, n_bad_py>> :> BadFile)
    @@ (<<n_src, n_m_py>> :> Dir)
    @@ (<<n_src, n_notes_txt>> :> OsFile)

AppFiles == {NoImportsFile, TwoImportsFile, BadFile}

AnalyzeTrees ==
    {[p \in DOMAIN t |-> IF p = p_app THEN app ELSE t[p]] :
        t \in Trees(AnalyzeUniverse), app \in AppFiles}

Directories == {n_src, Join(<<n_src, n_pkg>>, SLASH), n_lib}

InitAnalyze ==
    /\ pc = "start"
    /\ fs \in AnalyzeTrees
    /\ unreadable = {}
    /\ search_pattern = <<>>
    /\ exclude_patterns = <<>>
    /\ max_depth = 0
    /\ src_dirs = <<>>
    /\ todo_dirs = 0
    /\ all_results = <<>>
    /\ created = {}
    /\ written = {}
    /\ structure = VNone
    /\ source = Unparseable
    /\ imports = <<>>
    /\ directory \in Directories
    /\ dir_result = None

AnalyzeDirectory ==
    /\ pc = "start"
    /\ \E order \in Orders(RGlob(ParsePath(directory))) :
           dir_result' = analyze_directory(directory, order)
    /\ pc' = "done"
    /\ UNCHANGED <<fs, unreadable, search_pattern, exclude_patterns, max_depth,
                   src_dirs, todo_dirs, all_results, created, written,
                   structure, source, imports, directory>>

NextAnalyze == AnalyzeDirectory

SpecAnalyze == InitAnalyze /\ [][NextAnalyze]_vars

EndsWith(str, suffix) ==
    Len(str) >= Len(suffix) /\ IsPrefixAt(str, suffix, Len(str) - Len(suffix) + 1)

\* The .py files beneath a directory, and those that yield imports.
PyFilesUnder(dir_path) ==
    {p \in DOMAIN fs : IsUnder(p, dir_path) /\ IsFile(p) /\ EndsWith(PathName(p), dot_py)}

YieldingFiles(dir_path) ==
    {p \in PyFilesUnder(dir_path) : find_imports(fs[p].content) # <<>>}

RelativeStr(p, dir_path) == PathStr(SubSeq(p, Len(dir_path) + 1, Len(p)))

\* C6: analyze_directory returns a DirectoryResult exactly when a .py file
\* beneath the directory yields imports; its modules are then one
\* ModuleInfo per such file and none for another; an unparseable file
\* yields none and does not stop the others; a directory without source
\* files, or a missing one, yields None, not an empty result.
C6_ResultIffImports ==
    pc = "done" =>
        LET dir_path == ParsePath(directory)
            yielding == YieldingFiles(dir_path)
            modules == dir_result.modules
        IN /\ dir_result.none <=> yielding = {}
           /\ dir_result.none => modules = <<>>
           /\ Len(modules) = Cardinality(yielding)
           /\ {modules[i].file : i \in 1..Len(modules)}
                  = {RelativeStr(p, dir_path) : p \in yielding}
           /\ \A p \in yielding : \E i \in 1..Len(modules) :
                  /\ modules[i].file = RelativeStr(p, dir_path)
                  /\ modules[i].imports = find_imports(fs[p].content)
           /\ \A p \in PyFilesUnder(dir_path) :
                  ~fs[p].content.parses => find_imports(fs[p].content) = <<>>

C6_Witness ==
    /\ pc = "done"
    /\ ~dir_result.none
    /\ Len(dir_result.modules) >= 2
    /\ directory = n_src
    /\ <<n_src, n_bad_py>> \in DOMAIN fs
    /\ <<n_src, n_m_py>> \in DOMAIN fs
    /\ p_app \in DOMAIN fs
    /\ fs[p_app] = NoImportsFile

\* C10: a ModuleInfo's module is the file's relative path with every
\* separator replaced by a dot and only the trailing ".py" removed.
C10_ModuleIsPathWithoutSuffix ==
    pc = "done" =>
        \A i \in 1..Len(dir_result.modules) :
            dir_result.modules[i].module
                = ModulePathSuffixOnly(dir_result.modules[i].file)

-----------------------------------------------------------------------------
(* generate_project_structure on its own, called as main calls it (root    *)
(* ".", the caller's exclude patterns followed by DEFAULT_EXCLUDES) but    *)
(* with any max_depth.                                                     *)

AnyFile == File(Unparseable)

StructureUniverse ==
    (<<n_a_md>> :> AnyFile) @@ (<<n_z_py>> :> AnyFile)
    @@ (<<n_files>> :> Dir) @@ (<<n_files, n_x_py>> :> AnyFile)
    @@ (<<n_node_modules>> :> Dir)
    @@ (<<n_pkg>> :> Dir) @@ (<<n_pkg, n_notes_txt>> :> AnyFile)
    @@ (<<n_pkg, n_node_modules>> :> Dir)
    @@ (<<n_pkg, n_node_modules, n_index_json>> :> AnyFile)
    @@ (<<n_pkg, n_sub>> :> Dir) @@ (<<n_pkg, n_sub, n_deep>> :> Dir)
    @@ (<<n_pkg, n_sub, n_deep, n_m_py>> :> AnyFile)

StructureExcludes == { <<>>, << <<"*", "/">> \o n_deep >> }

InitStructure ==
    /\ pc = "start"
    /\ fs \in Trees(StructureUniverse)
    /\ unreadable \in {{}} \cup {{d} : d \in {<<n_pkg>>, <<n_pkg, n_sub>>} \cap DOMAIN fs}
    /\ search_pattern = <<>>
    /\ exclude_patterns \in StructureExcludes
    /\ max_depth \in 0..MaxDepthArg
    /\ src_dirs = <<>>
    /\ todo_dirs = 0
    /\ all_results = <<>>
    /\ created = {}
    /\ written = {}
    /\ structure = VNone
    /\ source = Unparseable
    /\ imports = <<>>
    /\ directory = <<>>
    /\ dir_result = None

GenerateProjectStructure ==
    /\ pc = "start"
    /\ structure' = generate_project_structure(exclude_patterns \o DEFAULT_EXCLUDES,
                                               max_depth)
    /\ pc' = "done"
    /\ UNCHANGED <<fs, unreadable, search_pattern, exclude_patterns, max_depth,
                   src_dirs, todo_dirs, all_results, created, written,
                   source, imports, directory, dir_result>>

NextStructure == GenerateProjectStructure

SpecStructure == InitStructure /\ [][NextStructure]_vars

Returned == pc = "done" /\ structure.kind = "dict"

RootTree == structure.items[<<>>]

EffectiveExcludes == exclude_patterns \o DEFAULT_EXCLUDES

RECURSIVE FileNames(_)
\* Every element of every list in a value.
FileNames(v) ==
    IF v.kind = "list" THEN Range(v.elems)
    ELSE UNION {FileNames(v.items[k]) : k \in DOMAIN v.items}

RECURSIVE EntryNames(_)
\* Every key that maps to a dict, and every element of every list.
EntryNames(v) ==
    IF v.kind = "list" THEN Range(v.elems)
    ELSE {k \in DOMAIN v.items : v.items[k].kind = "dict"}
         \cup UNION {EntryNames(v.items[k]) : k \in DOMAIN v.items}

RECURSIVE DictDepth(_)
\* How deep dicts nest below a value.
DictDepth(v) ==
    LET nested == {k \in DOMAIN v.items : v.items[k].kind = "dict"}
        depths == {1 + DictDepth(v.items[k]) : k \in nested}
    IN IF nested = {} THEN 0 ELSE CHOOSE d \in depths : \A e \in depths : e <= d

RECURSIVE Lookup(_, _)
\* The value found by following a path's names as keys.
Lookup(v, path) ==
    IF path = <<>> THEN v
    ELSE IF v.kind = "dict" /\ Head(path) \in DOMAIN v.items
         THEN Lookup(v.items[Head(path)], Tail(path))
    ELSE VNone

\* The traversal comes to path: no directory above it is excluded or
\* unreadable, and path itself is not excluded.
Reached(path) ==
    /\ ~should_exclude(path, EffectiveExcludes)
    /\ \A i \in 1..Len(path) :
           LET above == SubSeq(path, 1, i - 1)
           IN ~should_exclude(above, EffectiveExcludes) /\ above \notin unreadable

MatchesAny(name, patterns) == \E k \in 1..Len(patterns) : fnmatch(name, patterns[k])

\* C7: the structure holds no file name that fails every pattern of
\* IMPORTANT_FILE_PATTERNS; a directory at depth max_depth that is not
\* excluded (the traversal comes to it) is an empty mapping, so nothing
\* below it appears; dicts nest at most max_depth deep below the root key.
C7_ImportantFilesAndDepth ==
    Returned =>
        /\ \A name \in FileNames(RootTree) : MatchesAny(name, IMPORTANT_FILE_PATTERNS)
        /\ DictDepth(RootTree) <= max_depth
        /\ \A d \in DOMAIN fs \cup {<<>>} :
               (IsDir(d) /\ Len(d) = max_depth /\ Reached(d))
                   => Lookup(RootTree, d) = VDict(NoItems)

C7_Witness ==
    /\ Returned
    /\ max_depth = 2
    /\ <<n_pkg, n_sub, n_deep, n_m_py>> \in DOMAIN fs
    /\ <<n_pkg, n_notes_txt>> \in DOMAIN fs
    /\ Lookup(RootTree, <<n_pkg, n_sub>>) = VDict(NoItems)
    /\ n_a_md \in FileNames(RootTree)
    /\ unreadable = {}

\* C8: no directory or file whose bare name matches a pattern of the
\* effective exclude set appears anywhere in the structure.
C8_NoExcludedNameAnywhere ==
    Returned =>
        \A name \in EntryNames(RootTree) : ~MatchesAny(name, EffectiveExcludes)

\* Directories the traversal expands.
Expanded(d) == IsDir(d) /\ Len(d) < max_depth /\ Reached(d) /\ d \notin unreadable

SubTree(c) == build_tree(c, Len(c), EffectiveExcludes, max_depth)

\* C9: building never fails, and in every expanded directory "files" holds
\* exactly the sorted names of its included files and every other key is
\* an included subdirectory mapped to its own mapping, whatever the names.
C9_FilesAndSubdirectoriesKept ==
    pc = "done" =>
        /\ structure.kind # "AttributeError"
        /\ \A d \in {e \in DOMAIN fs \cup {<<>>} : Expanded(e)} :
               LET v == Lookup(RootTree, d)
                   dirs == {c \in ChildPaths(d) : IsDir(c) /\ SubTree(c).kind # "None"}
                   files == {c \in ChildPaths(d) : IsFile(c) /\ SubTree(c).kind = "str"}
               IN (dirs \cup files # {}) =>
                      /\ v.kind = "dict"
                      /\ \A c \in dirs :
                             /\ PathName(c) \in DOMAIN v.items
                             /\ v.items[PathName(c)] = SubTree(c)
                      /\ files # {} =>
                             /\ n_files \in DOMAIN v.items
                             /\ v.items[n_files]
                                    = VList(Sorted({PathName(c) : c \in files}))

-----------------------------------------------------------------------------
(* main.                                                                   *)

\* generate_project_structure's default max_depth, which main relies on.
DefaultMaxDepth == 3

MainUniverse ==
    (<<n_src>> :> Dir) @@ (<<n_src, n_app_py>> :> TwoImportsFile)
    @@ (<<n_pkg>> :> Dir) @@ (<<n_pkg, n_src>> :> Dir)
    @@ (<<n_pkg, n_src, n_bad_py>> :> BadFile)
    @@ (<<n_files>> :> Dir) @@ (<<n_files, n_x_py>> :> OsFile)
    @@ (<<n_z_py>> :> NoImportsFile)

\* "**/src", "src pkg/src", "**/lib"
SearchPatterns ==
    { t_glob_src,
      Join(<<n_src, Join(<<n_pkg, n_src>>, SLASH)>>, SPACE),
      <<"*", "*", "/">> \o n_lib }

MainExcludes == { <<>>, <<n_pkg>> }

NothingWritten == [output_file |-> <<>>, structure_file |-> <<>>]

\* The default --output-file and --structure-file, as paths.
n_analysis_results ==
    <<"a", "n", "a", "l", "y", "s", "i", "s", "_", "r", "e", "s", "u", "l", "t", "s">>
output_path ==
    <<n_analysis_results,
      <<"p", "y", "d", "e", "p", "s", "_", "r", "e", "s", "u", "l", "t", "s",
        ".", "j", "s", "o", "n">> >>
structure_path ==
    <<n_analysis_results,
      <<"p", "r", "o", "j", "e", "c", "t", "_", "s", "t", "r", "u", "c", "t", "u", "r", "e",
        ".", "j", "s", "o", "n">> >>

\* path.parent.mkdir(parents=True, exist_ok=True) and open(path, "w"), for
\* a path one directory below the working directory.
Mkdir(tree, path) ==
    [p \in DOMAIN tree \cup {path} |-> IF p = path THEN Dir ELSE tree[p]]
WriteFile(tree, path) ==
    [p \in DOMAIN tree \cup {path} |-> IF p = path THEN File(Unparseable) ELSE tree[p]]

InitMain ==
    /\ pc = "start"
    /\ fs \in Trees(MainUniverse)
    /\ unreadable = {}
    /\ search_pattern \in SearchPatterns
    /\ exclude_patterns \in MainExcludes
    /\ max_depth = DefaultMaxDepth
    /\ src_dirs = <<>>
    /\ todo_dirs = 0
    /\ all_results = <<>>
    /\ created = {}
    /\ written = NothingWritten
    /\ structure = VNone
    /\ source = Unparseable
    /\ imports = <<>>
    /\ directory = <<>>
    /\ dir_result = None

NeverReturnEarly(dirs) == FALSE

\* Line 278: main returns when discovery found nothing.
ReturnEarly(dirs) == dirs = <<>>

\* Lines 277-280.
Discover ==
    /\ pc = "start"
    /\ src_dirs' = find_source_directories(search_pattern, exclude_patterns)
    /\ pc' = IF ReturnEarly(src_dirs') THEN "returned" ELSE "mkdir_output"
    /\ UNCHANGED <<fs, unreadable, search_pattern, exclude_patterns, max_depth,
                   todo_dirs, all_results, created, written, structure,
                   source, imports, directory, dir_result>>

\* Lines 283-286.
MkdirOutput ==
    /\ pc = "mkdir_output"
    /\ created' = created \cup {"output_file.parent"}
    /\ fs' = Mkdir(fs, <<output_path[1]>>)
    /\ all_results' = <<>>
    /\ todo_dirs' = 1
    /\ pc' = "analyze"
    /\ UNCHANGED <<unreadable, search_pattern, exclude_patterns, max_depth,
                   src_dirs, written, structure, source, imports, directory,
                   dir_result>>

\* Lines 287-292: one iteration of the loop over src_dirs.
AnalyzeNext ==
    /\ pc = "analyze"
    /\ todo_dirs <= Len(src_dirs)
    /\ directory' = src_dirs[todo_dirs]
    /\ \E order \in Orders(RGlob(ParsePath(src_dirs[todo_dirs]))) :
           dir_result' = analyze_directory(src_dirs[todo_dirs], order)
    /\ all_results' = IF dir_result'.none THEN all_results
                      ELSE Append(all_results, dir_result')
    /\ todo_dirs' = todo_dirs + 1
    /\ UNCHANGED <<pc, fs, unreadable, search_pattern, exclude_patterns,
                   max_depth, src_dirs, created, written, structure, source,
                   imports>>

\* Lines 294-302.
WriteReport ==
    /\ pc = "analyze"
    /\ todo_dirs > Len(src_dirs)
    /\ written' = [written EXCEPT !.output_file = <<[modules |-> all_results]>>]
    /\ fs' = WriteFile(fs, output_path)
    /\ pc' = "mkdir_structure"
    /\ UNCHANGED <<unreadable, search_pattern, exclude_patterns, max_depth,
                   src_dirs, todo_dirs, all_results, created, structure,
                   source, imports, directory, dir_result>>

\* Lines 305-306.
MkdirStructure ==
    /\ pc = "mkdir_structure"
    /\ created' = created \cup {"structure_file.parent"}
    /\ fs' = Mkdir(fs, <<structure_path[1]>>)
    /\ pc' = "generate_structure"
    /\ UNCHANGED <<unreadable, search_pattern, exclude_patterns, max_depth,
                   src_dirs, todo_dirs, all_results, written, structure,
                   source, imports, directory, dir_result>>

\* Lines 309-312; an exception that escapes ends main.
GenerateStructure ==
    /\ pc = "generate_structure"
    /\ structure' = generate_project_structure(exclude_patterns \o DEFAULT_EXCLUDES,
                                               max_depth)
    /\ pc' = IF structure'.kind = "AttributeError" THEN "raised" ELSE "write_structure"
    /\ UNCHANGED <<fs, unreadable, search_pattern, exclude_patterns, max_depth,
                   src_dirs, todo_dirs, all_results, created, written,
                   source, imports, directory, dir_result>>

\* Lines 314-319.
WriteStructure ==
    /\ pc = "write_structure"
    /\ written' = [written EXCEPT !.structure_file = <<structure>>]
    /\ fs' = WriteFile(fs, structure_path)
    /\ pc' = "returned"
    /\ UNCHANGED <<unreadable, search_pattern, exclude_patterns, max_depth,
                   src_dirs, todo_dirs, all_results, created, structure,
                   source, imports, directory, dir_result>>

NextMain ==
    \/ Discover
    \/ MkdirOutput
    \/ AnalyzeNext
    \/ WriteReport
    \/ MkdirStructure
    \/ GenerateStructure
    \/ WriteStructure

SpecMain == InitMain /\ [][NextMain]_vars

\* C3: when discovery returns nothing main returns with no directory
\* created and no file written; when it returns a directory, a run that
\* returns normally has written both files, the report holding the
\* results collected (none, if no directory yielded a DirectoryResult).
C3_OutputIffDirectoriesFound ==
    /\ (pc # "start" /\ src_dirs = <<>>) =>
           /\ pc = "returned" /\ created = {} /\ written = NothingWritten
           /\ DOMAIN fs \cap {<<n_analysis_results>>, output_path, structure_path} = {}
    /\ (pc = "returned" /\ src_dirs # <<>>) =>
           /\ written.output_file = <<[modules |-> all_results]>>
           /\ written.structure_file = <<structure>>
           /\ todo_dirs = Len(src_dirs) + 1
           /\ created = {"output_file.parent", "structure_file.parent"}
           /\ {<<n_analysis_results>>, output_path, structure_path} \subseteq DOMAIN fs
    /\ written # NothingWritten => src_dirs # <<>>

C3_Witness ==
    /\ pc = "returned"
    /\ src_dirs # <<>>
    /\ all_results = <<>>
    /\ written.output_file = <<[modules |-> <<>>]>>
    /\ Len(written.structure_file) = 1

====
